---------------------------- MODULE Spec2Model ----------------------------
(***************************************************************************)
(* async-spsc: a bounded single-producer / single-consumer channel over a  *)
(* ring buffer, coordinated through one packed atomic state word           *)
(* (src/src/state.rs), a Sender (src/src/sender.rs), a Receiver            *)
(* (src/src/receiver.rs) and the shared block Spsc (src/src/lib.rs,        *)
(* src/src/slice.rs).                                                      *)
(*                                                                         *)
(* The two sides run concurrently.  Every access to shared memory (the     *)
(* atomic word, a waker register, a slot, the allocation) is one step of   *)
(* the side that performs it; the local computation between two accesses   *)
(* belongs to the step that follows it.  Steps interleave freely, and an   *)
(* atomic operation takes effect at once for both sides (the Ordering      *)
(* arguments are not distinguished).                                       *)
(***************************************************************************)
EXTENDS Integers, Naturals, Sequences, FiniteSets, TLC

---------------------------------------------------------------------------
(* Bounds of the model. *)

\* capacities 1..MaxCap are explored (3 is the first non-power-of-two)
MaxCap == 3
\* number of send operations the producer starts
MaxSends == 4

---------------------------------------------------------------------------
(* Bitwise operations on machine words. *)

RECURSIVE BitXor(_, _)
BitXor(a, b) ==
    IF a = 0 THEN b
    ELSE IF b = 0 THEN a
    ELSE ((a + b) % 2) + 2 * BitXor(a \div 2, b \div 2)

RECURSIVE BitAnd(_, _)
BitAnd(a, b) ==
    IF a = 0 \/ b = 0 THEN 0
    ELSE ((a % 2) * (b % 2)) + 2 * BitAnd(a \div 2, b \div 2)

BitOr(a, b) == a + b - BitAnd(a, b)

---------------------------------------------------------------------------
(* src/src/state.rs: the packed state word (target_pointer_width = "16",   *)
(* so a Half is a u8 and the word is 16 bits wide).                        *)

BITS == 8
HalfMod == 2 ^ BITS
WordMax == 2 ^ (2 * BITS) - 1

HIGH_BIT == 2 ^ (BITS - 1)
S_CLOSE == HIGH_BIT
\* mutant of R_CLOSE: the consumer's close mask also covers the producer's
\* close bit
R_CLOSE_both == S_CLOSE * HalfMod + S_CLOSE
R_CLOSE == S_CLOSE * HalfMod
ANY_CLOSE == BitOr(S_CLOSE, R_CLOSE)
FRONT == HalfMod - 1
BACK == WordMax - FRONT
\* mutant of MAX_CAPACITY: every value below the close bit is a capacity
MAX_CAPACITY_wide == HIGH_BIT - 1
MAX_CAPACITY == (HIGH_BIT \div 2) - 1

\* HalfState::position
position(h) == BitAnd(h, (HalfMod - 1) - HIGH_BIT)

\* HalfState::is_closed
half_is_closed(h) == BitAnd(h, HIGH_BIT) # 0

\* mutant of advance: the cursor wraps at the capacity
advance_wrap_at_cap(h, c, by) == ((h + by) % HalfMod) % c

\* HalfState::advance: the whole half, close bit included, is advanced
advance(h, c, by) == ((h + by) % HalfMod) % (2 * c)

\* State::front, State::back
front(s) == BitAnd(s, FRONT)
back(s) == s \div HalfMod

\* State::is_closed
is_closed(s) == BitAnd(s, ANY_CLOSE) # 0

\* mutant of is_empty: the halves are compared with their close bits
is_empty_halves(s) == front(s) = back(s)

\* State::is_empty
is_empty(s) == position(front(s)) = position(back(s))

\* State::len
len(s, c) ==
    LET f == position(front(s))
        b == position(back(s))
    IN  IF f >= b THEN f - b ELSE 2 * c - b + f

\* mutant of is_full: the comparison lets one more message in
is_full_off_by_one(s, c) == len(s, c) > c

\* State::is_full
is_full(s, c) == len(s, c) = c

\* State::space
space(s, c) == c - len(s, c)

\* Index<Half> for Slice: the physical slot of a virtual position
index(p, c) == p % c

\* mutant of fetch_xor: the word after the RMW is returned
fetch_xor_new(word, mask) == BitXor(word, mask)

\* AtomicUsize::fetch_xor as the code uses its result: the word held before
\* the RMW (the word itself becomes BitXor(word, mask))
fetch_xor(word, mask) == word

---------------------------------------------------------------------------
(* The program state. *)

VARIABLES
    cap,        \* capacity given to spsc()
    atomics,    \* Atomics: [state, sender, receiver] (word and two wakers)
    buffer,     \* the slots: [v: bits stored, init: holds a live value]
    freed,      \* the block has been deallocated (Holder::cleanup)
    sender,     \* Sender, its Sending operation and its drop
    receiver,   \* Receiver, its Receiving operation and its drop
    committed,  \* values whose send commit saw the channel open, in order
    delivered,  \* values returned by receives, in order
    returned,   \* values handed back to the caller by failed sends
    dropped,    \* number of drop_in_place calls per stored value
    uaf         \* a waker register was used after the block was freed

vars == <<cap, atomics, buffer, freed, sender, receiver,
          committed, delivered, returned, dropped, uaf>>

Caps == 1 .. MaxCap
Values == 1 .. MaxSends
Modes == {"now", "poll"}

\* mutant of spsc_accepts: the upper comparison is strict
spsc_accepts_strict(c) == c > 0 /\ c < MAX_CAPACITY

\* lib.rs spsc(): the capacity check
spsc_accepts(c) == c > 0 /\ c <= MAX_CAPACITY

\* the close bits and the length of a word, read without the accessors of
\* state.rs (used by the properties and by the observations recorded for
\* them)
SenderClosedIn(w) == (w % HalfMod) >= HIGH_BIT
ReceiverClosedIn(w) == (w \div HalfMod) >= HIGH_BIT
LengthOf(w) ==
    (((w % HalfMod) % HIGH_BIT) - ((w \div HalfMod) % HIGH_BIT)) % (2 * cap)

\* the channel is open and holds fewer than cap messages
HasRoom(w) ==
    /\ ~SenderClosedIn(w)
    /\ ~ReceiverClosedIn(w)
    /\ LengthOf(w) < cap

\* Sender::new / Sending fields plus the locals of the running call; room
\* records whether the channel had room when the call started, again that
\* the drop logic was run on the handle once more
SenderInit ==
    [ pc |-> "idle", spsc |-> TRUE, state |-> 0,
      value |-> 0, flags |-> 0, mode |-> "now", s |-> 0,
      result |-> "none", ret |-> 0, given |-> 0, loaded |-> -1,
      notified |-> FALSE, count |-> 0, afterClose |-> FALSE,
      room |-> FALSE,
      cstate |-> 0, cback |-> 0, last |-> FALSE, again |-> FALSE ]

\* Receiver::new / Receiving plus the locals of the running call
ReceiverInit ==
    [ pc |-> "idle", spsc |-> TRUE, state |-> 0,
      value |-> 0, mode |-> "now",
      result |-> "none", ret |-> 0, loaded |-> -1,
      notified |-> FALSE,
      cstate |-> 0, cback |-> 0, last |-> FALSE, again |-> FALSE ]

\* lib.rs spsc(): State(0) on both sides, default Atomics, uninitialised slots
Init ==
    /\ cap \in { c \in Caps : spsc_accepts(c) }
    /\ atomics = [state |-> 0, sender |-> FALSE, receiver |-> FALSE]
    /\ buffer = [i \in 0 .. cap - 1 |-> [v |-> 0, init |-> FALSE]]
    /\ freed = FALSE
    /\ sender = SenderInit
    /\ receiver = ReceiverInit
    /\ committed = <<>>
    /\ delivered = <<>>
    /\ returned = {}
    /\ dropped = [v \in 0 .. MaxSends |-> 0]
    /\ uaf = FALSE

---------------------------------------------------------------------------
(* atomic_waker::AtomicWaker, as used through Atomics.sender and           *)
(* Atomics.receiver: register stores the waker, wake takes it and wakes    *)
(* it, take removes it.  A wake that runs after the block was deallocated  *)
(* touches freed memory.                                                   *)

\* atomics.receiver.wake(), called by the producer side
WakeReceiver ==
    IF freed
    THEN /\ uaf' = TRUE
         /\ UNCHANGED <<atomics, receiver>>
    ELSE /\ atomics' = [atomics EXCEPT !.receiver = FALSE]
         /\ receiver' = [receiver EXCEPT !.notified = @ \/ atomics.receiver]
         /\ UNCHANGED uaf

\* atomics.sender.wake(), called by the consumer side
WakeSender ==
    IF freed
    THEN /\ uaf' = TRUE
         /\ UNCHANGED <<atomics, sender>>
    ELSE /\ atomics' = [atomics EXCEPT !.sender = FALSE]
         /\ sender' = [sender EXCEPT !.notified = @ \/ atomics.sender]
         /\ UNCHANGED uaf

---------------------------------------------------------------------------
(* src/src/sender.rs *)

\* mutant of Sender_space: the slots in use are reported
Sender_space_used(snd) == len(snd.state, cap)

\* Sender::space, Sender::is_full, Sender::is_empty: accessors of the cached
\* state (is_empty calls State::is_full)
Sender_space(snd) == space(snd.state, cap)
Sender_is_full(snd) == is_full(snd.state, cap)
Sender_is_empty(snd) == is_full(snd.state, cap)

\* closed(value) / full(value): the call returns Err carrying the value
SendFail(snd, kind, v) ==
    [snd EXCEPT !.pc = "idle", !.result = kind, !.ret = v, !.value = 0]

\* mutant of refresh_state: the cache is not reloaded
refresh_state_stale(snd) == snd

\* Sender::refresh_state
refresh_state(snd) == [snd EXCEPT !.state = atomics.state]

\* mutant of update_state: the mask is applied to the cache and the word
\* returned by the RMW is ignored
update_state_local(snd, mask) == [snd EXCEPT !.state = BitXor(snd.state, mask)]

\* mutant of update_state: the cache adopts the word the RMW returned
update_state_pre(snd, mask) ==
    [snd EXCEPT !.state = fetch_xor(atomics.state, mask)]

\* Sender::update_state: the cache adopts the post-RMW word
update_state(snd, mask) ==
    [snd EXCEPT !.state = BitXor(fetch_xor(atomics.state, mask), mask)]

\* mutant of rewind_state: the cache keeps the advanced front
rewind_state_skipped(snd, to) == snd

\* Sender::rewind_state
rewind_state(snd, to) ==
    [snd EXCEPT !.state = BitOr(BitAnd(snd.state, BACK), to)]

\* Sending::now / Sending::poll up to the first shared access: the checks
\* made on the cached state
SendingEnter_commit_first(snd) ==
    IF is_closed(snd.state) THEN SendFail(snd, "Closed", snd.value)
    ELSE IF is_full(snd.state, cap) THEN [snd EXCEPT !.pc = "refresh"]
    ELSE [snd EXCEPT !.pc = "commit", !.s = front(snd.state)]

\* mutant of SendingEnter: a cache that shows full is believed
SendingEnter_full_from_cache(snd) ==
    IF is_closed(snd.state) THEN SendFail(snd, "Closed", snd.value)
    ELSE IF is_full(snd.state, cap)
         THEN IF snd.mode = "now"
              THEN SendFail(snd, "Full", snd.value)
              ELSE [snd EXCEPT !.flags = 1, !.pc = "register"]
    ELSE [snd EXCEPT !.pc = "write"]

SendingEnter(snd) ==
    IF is_closed(snd.state) THEN SendFail(snd, "Closed", snd.value)
    ELSE IF is_full(snd.state, cap) THEN [snd EXCEPT !.pc = "refresh"]
    ELSE [snd EXCEPT !.pc = "write"]

\* Sender::send(value) and the first call (now, or the first poll) on it
Send(m) ==
    /\ sender.pc = "idle"
    /\ sender.spsc
    /\ sender.count < MaxSends
    /\ LET op == [sender EXCEPT !.value = sender.count + 1,
                                !.given = sender.count + 1,
                                !.count = sender.count + 1,
                                !.flags = 0, !.mode = m, !.s = 0,
                                !.result = "none", !.ret = 0,
                                !.loaded = -1, !.notified = FALSE,
                                !.afterClose = (receiver.pc = "dropped"),
                                !.room = HasRoom(atomics.state)]
       IN  sender' = SendingEnter(op)
    /\ returned' = IF sender'.result = "Closed"
                   THEN returned \cup {sender'.ret} ELSE returned
    /\ UNCHANGED <<cap, atomics, buffer, freed, receiver, committed,
                   delivered, dropped, uaf>>

\* Sending::poll called again on an operation that returned Pending
SendingPoll ==
    /\ sender.pc = "pending"
    /\ sender' = SendingEnter([sender EXCEPT !.result = "none", !.ret = 0,
                                             !.loaded = -1,
                                             !.notified = FALSE])
    /\ returned' = IF sender'.result = "Closed"
                   THEN returned \cup {sender'.ret} ELSE returned
    /\ UNCHANGED <<cap, atomics, buffer, freed, receiver, committed,
                   delivered, dropped, uaf>>

\* mutant of SendingRecheck: full is tested before closed
SendingRecheck_full_first(snd) ==
    IF is_full(snd.state, cap)
    THEN IF snd.mode = "now"
         THEN SendFail(snd, "Full", snd.value)
         ELSE [snd EXCEPT !.flags = 1, !.pc = "register"]
    ELSE IF is_closed(snd.state) THEN SendFail(snd, "Closed", snd.value)
    ELSE [snd EXCEPT !.pc = "write"]

\* mutant of SendingRecheck: now() waits on a full channel as poll() does
SendingRecheck_now_waits(snd) ==
    IF is_closed(snd.state) THEN SendFail(snd, "Closed", snd.value)
    ELSE IF is_full(snd.state, cap)
         THEN [snd EXCEPT !.flags = 1, !.pc = "register"]
    ELSE [snd EXCEPT !.pc = "write"]

\* the checks made on the state just reloaded
SendingRecheck(snd) ==
    IF is_closed(snd.state) THEN SendFail(snd, "Closed", snd.value)
    ELSE IF is_full(snd.state, cap)
         THEN IF snd.mode = "now"
              THEN SendFail(snd, "Full", snd.value)
              ELSE [snd EXCEPT !.flags = 1, !.pc = "register"]
         ELSE [snd EXCEPT !.pc = "write"]

\* the cached state showed full: reload and recheck
SendingRefresh ==
    /\ sender.pc = "refresh"
    /\ sender' = SendingRecheck([refresh_state(sender) EXCEPT
                                    !.loaded = atomics.state])
    /\ returned' = IF sender'.result \in {"Closed", "Full"}
                   THEN returned \cup {sender'.ret} ELSE returned
    /\ UNCHANGED <<cap, atomics, buffer, freed, receiver, committed,
                   delivered, dropped, uaf>>

\* mutant of SendingRegister: Pending is returned without registering
SendingRegister_no_register ==
    /\ sender.pc = "register"
    /\ sender' = [sender EXCEPT !.pc = "pending", !.result = "Pending"]
    /\ UNCHANGED <<cap, atomics, buffer, freed, receiver, committed,
                   delivered, returned, dropped, uaf>>

\* spsc.atomics.sender.register(ctx.waker()); return Poll::Pending
SendingRegister ==
    /\ sender.pc = "register"
    /\ atomics' = [atomics EXCEPT !.sender = TRUE]
    /\ sender' = [sender EXCEPT !.pc = "pending", !.result = "Pending"]
    /\ UNCHANGED <<cap, buffer, freed, receiver, committed, delivered,
                   returned, dropped, uaf>>

\* slot[s.position()] = MaybeUninit::new(value)
SendingWrite ==
    /\ sender.pc = "write"
    /\ LET s == front(sender.state)
       IN  /\ buffer' = [buffer EXCEPT ![index(position(s), cap)] =
                            [v |-> sender.value, init |-> TRUE]]
           /\ sender' = [sender EXCEPT !.s = s, !.pc = "commit"]
    /\ UNCHANGED <<cap, atomics, freed, receiver, committed, delivered,
                   returned, dropped, uaf>>

\* sender.update_state(s.0 ^ s.advance(cap, 1).0)
SendingCommit ==
    /\ sender.pc = "commit"
    /\ LET mask == BitXor(sender.s, advance(sender.s, cap, 1))
           snd  == update_state(sender, mask)
       IN  /\ atomics' = [atomics EXCEPT !.state = BitXor(@, mask)]
           /\ IF is_closed(snd.state)
              THEN /\ sender' = [snd EXCEPT !.pc = "recover"]
                   /\ UNCHANGED committed
              ELSE /\ sender' = [snd EXCEPT !.pc = "wake"]
                   /\ committed' = Append(committed, sender.value)
    /\ UNCHANGED <<cap, buffer, freed, receiver, delivered, returned,
                   dropped, uaf>>

\* the commit revealed a close: read the value back and rewind the cache
SendingRecover ==
    /\ sender.pc = "recover"
    /\ LET i == index(position(sender.s), cap)
           v == buffer[i].v
       IN  /\ buffer' = [buffer EXCEPT ![i].init = FALSE]
           /\ sender' = SendFail(rewind_state(sender, sender.s), "Closed", v)
           /\ returned' = returned \cup {v}
    /\ UNCHANGED <<cap, atomics, freed, receiver, committed, delivered,
                   dropped, uaf>>

\* spsc.atomics.receiver.wake(); return Ok(())
SendingWake ==
    /\ sender.pc = "wake"
    /\ WakeReceiver
    /\ sender' = [sender EXCEPT !.pc = "idle", !.result = "Ok", !.value = 0]
    /\ UNCHANGED <<cap, buffer, freed, committed, delivered, returned,
                   dropped>>

\* Drop for Sending, for an operation that returned Pending
SendingDrop ==
    /\ sender.pc = "pending"
    /\ atomics' = IF sender.flags = 1
                  THEN [atomics EXCEPT !.sender = FALSE] ELSE atomics
    /\ sender' = [sender EXCEPT !.pc = "idle", !.result = "Dropped",
                                !.value = 0]
    /\ UNCHANGED <<cap, buffer, freed, receiver, committed, delivered,
                   returned, dropped, uaf>>

\* mutant of SenderDrop: the drop logic does not look at whether the holder
\* was already taken
SenderDrop_no_take ==
    /\ sender.pc \in {"idle", "dropped"}
    /\ sender' = IF is_closed(sender.state)
                 THEN [sender EXCEPT !.spsc = FALSE, !.pc = "take_s",
                                     !.cstate = sender.state, !.last = TRUE]
                 ELSE [sender EXCEPT !.spsc = FALSE, !.pc = "close"]
    /\ UNCHANGED <<cap, atomics, buffer, freed, receiver, committed,
                   delivered, returned, dropped, uaf>>

\* Drop for Sender: self.spsc.take(), then the branch taken on the cached
\* state; run on a handle whose holder was taken before, it does nothing
SenderDrop ==
    /\ sender.pc \in {"idle", "dropped"}
    /\ sender' = IF ~sender.spsc
                 THEN [sender EXCEPT !.again = TRUE]
                 ELSE IF is_closed(sender.state)
                 THEN [sender EXCEPT !.spsc = FALSE, !.pc = "take_s",
                                     !.cstate = sender.state, !.last = TRUE]
                 ELSE [sender EXCEPT !.spsc = FALSE, !.pc = "close"]
    /\ UNCHANGED <<cap, atomics, buffer, freed, receiver, committed,
                   delivered, returned, dropped, uaf>>

\* Drop for Sender: fetch_xor(S_CLOSE); cleanup with the pre-RMW word
SenderClose ==
    /\ sender.pc = "close"
    /\ LET state == fetch_xor(atomics.state, S_CLOSE)
       IN  /\ atomics' = [atomics EXCEPT !.state = BitXor(@, S_CLOSE)]
           /\ sender' = IF is_closed(state)
                        THEN [sender EXCEPT !.pc = "take_s",
                                            !.cstate = state, !.last = TRUE]
                        ELSE [sender EXCEPT !.pc = "wake_peer"]
    /\ UNCHANGED <<cap, buffer, freed, receiver, committed, delivered,
                   returned, dropped, uaf>>

\* mutant of SenderWakePeer: the drop returns without waking the receiver
SenderWakePeer_no_wake ==
    /\ sender.pc = "wake_peer"
    /\ sender' = [sender EXCEPT !.pc = "dropped"]
    /\ UNCHANGED <<cap, atomics, buffer, freed, receiver, committed,
                   delivered, returned, dropped, uaf>>

\* Drop for Sender: not the last referent, wake the receiver
SenderWakePeer ==
    /\ sender.pc = "wake_peer"
    /\ WakeReceiver
    /\ sender' = [sender EXCEPT !.pc = "dropped"]
    /\ UNCHANGED <<cap, buffer, freed, committed, delivered, returned,
                   dropped>>

---------------------------------------------------------------------------
(* src/src/receiver.rs *)

\* the call returns; an Ok(Some(v)) / Ok(v) is a delivery
ReceiveReturn(rcv, kind, v) ==
    [rcv EXCEPT !.pc = "idle", !.result = kind, !.ret = v, !.value = 0]

\* mutant of ReceivingEnter: closed is tested before empty, as the
\* producer does
ReceivingEnter_closed_first(rcv) ==
    IF is_closed(rcv.state) THEN ReceiveReturn(rcv, "Closed", 0)
    ELSE IF is_empty(rcv.state) THEN [rcv EXCEPT !.pc = "load"]
    ELSE [rcv EXCEPT !.pc = "read"]

\* Receiving::now / Receiving::poll up to the first shared access: the
\* checks made on the cached state
ReceivingEnter(rcv) ==
    IF is_empty(rcv.state)
    THEN IF is_closed(rcv.state) THEN ReceiveReturn(rcv, "Closed", 0)
         ELSE [rcv EXCEPT !.pc = "load"]
    ELSE [rcv EXCEPT !.pc = "read"]

\* Receiver::receive() and the first call (now, or the first poll) on it
Receive(m) ==
    /\ receiver.pc = "idle"
    /\ receiver.spsc
    /\ receiver' = ReceivingEnter([receiver EXCEPT !.mode = m, !.value = 0,
                                                   !.result = "none",
                                                   !.ret = 0, !.loaded = -1,
                                                   !.notified = FALSE])
    /\ UNCHANGED <<cap, atomics, buffer, freed, sender, committed,
                   delivered, returned, dropped, uaf>>

\* Receiving::poll called again on an operation that returned Pending
ReceivingPoll ==
    /\ receiver.pc = "pending"
    /\ receiver' = ReceivingEnter([receiver EXCEPT !.result = "none",
                                                   !.ret = 0, !.loaded = -1,
                                                   !.notified = FALSE])
    /\ UNCHANGED <<cap, atomics, buffer, freed, sender, committed,
                   delivered, returned, dropped, uaf>>

\* mutant of ReceivingRecheck: the close bits are not looked at
ReceivingRecheck_no_close(rcv) ==
    IF is_empty(rcv.state)
    THEN IF rcv.mode = "now"
         THEN ReceiveReturn(rcv, "Empty", 0)
         ELSE [rcv EXCEPT !.pc = "register"]
    ELSE [rcv EXCEPT !.pc = "read"]

\* the checks made on the state just reloaded
ReceivingRecheck(rcv) ==
    IF is_empty(rcv.state)
    THEN IF is_closed(rcv.state) THEN ReceiveReturn(rcv, "Closed", 0)
         ELSE IF rcv.mode = "now"
              THEN ReceiveReturn(rcv, "Empty", 0)
              ELSE [rcv EXCEPT !.pc = "register"]
    ELSE [rcv EXCEPT !.pc = "read"]

\* the cached state showed empty and open: reload and recheck
ReceivingLoad ==
    /\ receiver.pc = "load"
    /\ receiver' = ReceivingRecheck([receiver EXCEPT
                                       !.state = atomics.state,
                                       !.loaded = atomics.state])
    /\ UNCHANGED <<cap, atomics, buffer, freed, sender, committed,
                   delivered, returned, dropped, uaf>>

\* spsc.atomics().receiver.register(ctx.waker()); return Poll::Pending
ReceivingRegister ==
    /\ receiver.pc = "register"
    /\ atomics' = [atomics EXCEPT !.receiver = TRUE]
    /\ receiver' = [receiver EXCEPT !.pc = "pending", !.result = "Pending"]
    /\ UNCHANGED <<cap, buffer, freed, sender, committed, delivered,
                   returned, dropped, uaf>>

\* spsc.data().add(back.index(cap)).read().assume_init()
ReceivingRead ==
    /\ receiver.pc = "read"
    /\ LET i == index(position(back(receiver.state)), cap)
       IN  /\ receiver' = [receiver EXCEPT !.value = buffer[i].v,
                                           !.pc = "commit"]
           /\ buffer' = [buffer EXCEPT ![i].init = FALSE]
    /\ UNCHANGED <<cap, atomics, freed, sender, committed, delivered,
                   returned, dropped, uaf>>

\* mutant of ReceivingCommit: the mask is not shifted to the high half
ReceivingCommit_unshifted ==
    /\ receiver.pc = "commit"
    /\ LET bk == back(receiver.state)
           b == advance(bk, cap, 1)
           mask == BitXor(bk, b)
           state == BitXor(fetch_xor(atomics.state, mask), mask)
           rcv == [receiver EXCEPT !.state = state]
       IN  /\ atomics' = [atomics EXCEPT !.state = BitXor(@, mask)]
           /\ IF ~is_closed(state)
              THEN /\ receiver' = [rcv EXCEPT !.pc = "wake"]
                   /\ UNCHANGED delivered
              ELSE /\ receiver' = ReceiveReturn(rcv, "Some", rcv.value)
                   /\ delivered' = Append(delivered, rcv.value)
    /\ UNCHANGED <<cap, buffer, freed, sender, committed, returned,
                   dropped, uaf>>

\* fetch_xor of the back advance; the cache adopts the post-RMW word
ReceivingCommit ==
    /\ receiver.pc = "commit"
    /\ LET bk == back(receiver.state)
           b == advance(bk, cap, 1)
           mask == BitXor(bk, b) * HalfMod
           state == BitXor(fetch_xor(atomics.state, mask), mask)
           rcv == [receiver EXCEPT !.state = state]
       IN  /\ atomics' = [atomics EXCEPT !.state = BitXor(@, mask)]
           /\ IF ~is_closed(state)
              THEN /\ receiver' = [rcv EXCEPT !.pc = "wake"]
                   /\ UNCHANGED delivered
              ELSE /\ receiver' = ReceiveReturn(rcv, "Some", rcv.value)
                   /\ delivered' = Append(delivered, rcv.value)
    /\ UNCHANGED <<cap, buffer, freed, sender, committed, returned,
                   dropped, uaf>>

\* atomics.sender.wake(); return the value
ReceivingWake ==
    /\ receiver.pc = "wake"
    /\ WakeSender
    /\ receiver' = ReceiveReturn(receiver, "Some", receiver.value)
    /\ delivered' = Append(delivered, receiver.value)
    /\ UNCHANGED <<cap, buffer, freed, committed, returned, dropped>>

\* a Receiving that returned Pending goes out of scope (Receiving has no
\* Drop implementation)
ReceivingDrop ==
    /\ receiver.pc = "pending"
    /\ receiver' = [receiver EXCEPT !.pc = "idle", !.result = "Dropped"]
    /\ UNCHANGED <<cap, atomics, buffer, freed, sender, committed,
                   delivered, returned, dropped, uaf>>

\* Drop for Receiver: self.spsc.take(), then the branch taken on the
\* cached state; run on a handle whose holder was taken before, it does
\* nothing
ReceiverDrop ==
    /\ receiver.pc \in {"idle", "dropped"}
    /\ receiver' = IF ~receiver.spsc
                   THEN [receiver EXCEPT !.again = TRUE]
                   ELSE IF is_closed(receiver.state)
                   THEN [receiver EXCEPT !.spsc = FALSE, !.pc = "take_s",
                                         !.cstate = receiver.state,
                                         !.last = TRUE]
                   ELSE [receiver EXCEPT !.spsc = FALSE, !.pc = "close"]
    /\ UNCHANGED <<cap, atomics, buffer, freed, sender, committed,
                   delivered, returned, dropped, uaf>>

\* Drop for Receiver: fetch_xor(R_CLOSE); when the pre-RMW word (state2)
\* shows a close, cleanup is called with `state`, the cached word
ReceiverClose ==
    /\ receiver.pc = "close"
    /\ LET state == receiver.state
           state2 == fetch_xor(atomics.state, R_CLOSE)
       IN  /\ atomics' = [atomics EXCEPT !.state = BitXor(@, R_CLOSE)]
           /\ receiver' = IF is_closed(state2)
                          THEN [receiver EXCEPT !.pc = "take_s",
                                                !.cstate = state,
                                                !.last = TRUE]
                          ELSE [receiver EXCEPT !.pc = "wake_peer"]
    /\ UNCHANGED <<cap, buffer, freed, sender, committed, delivered,
                   returned, dropped, uaf>>

\* Drop for Receiver: not the last referent, wake the sender
ReceiverWakePeer ==
    /\ receiver.pc = "wake_peer"
    /\ WakeSender
    /\ receiver' = [receiver EXCEPT !.pc = "dropped"]
    /\ UNCHANGED <<cap, buffer, freed, committed, delivered, returned,
                   dropped>>

---------------------------------------------------------------------------
(* src/src/lib.rs Holder::cleanup and Spsc::cleanup, src/src/slice.rs      *)
(* Slice::cleanup: run by the side that found itself the last referent.    *)

Sides == {"sender", "receiver"}
Handle(side) == IF side = "sender" THEN sender ELSE receiver
SetHandle(side, h) ==
    IF side = "sender"
    THEN sender' = h /\ UNCHANGED receiver
    ELSE receiver' = h /\ UNCHANGED sender

\* Spsc::cleanup: let _s = self.atomics.sender.take()
CleanupTakeSender(side) ==
    /\ Handle(side).pc = "take_s"
    /\ atomics' = [atomics EXCEPT !.sender = FALSE]
    /\ SetHandle(side, [Handle(side) EXCEPT !.pc = "take_r"])
    /\ UNCHANGED <<cap, buffer, freed, committed, delivered, returned,
                   dropped, uaf>>

\* Spsc::cleanup: let _r = self.atomics.receiver.take(); then Slice::cleanup
\* starts with back = state.back()
CleanupTakeReceiver(side) ==
    /\ Handle(side).pc = "take_r"
    /\ atomics' = [atomics EXCEPT !.receiver = FALSE]
    /\ SetHandle(side, [Handle(side) EXCEPT
                           !.pc = "loop",
                           !.cback = back(Handle(side).cstate)])
    /\ UNCHANGED <<cap, buffer, freed, committed, delivered, returned,
                   dropped, uaf>>

\* Slice::cleanup: one turn of the loop
CleanupLoop(side) ==
    /\ Handle(side).pc = "loop"
    /\ LET h == Handle(side)
           fr == position(front(h.cstate))
           b == position(h.cback)
           i == index(b, cap)
       IN  IF fr = b
           THEN /\ SetHandle(side, [h EXCEPT !.pc = "dealloc"])
                /\ UNCHANGED <<buffer, dropped>>
           ELSE /\ dropped' = [dropped EXCEPT ![buffer[i].v] = @ + 1]
                /\ buffer' = [buffer EXCEPT ![i].init = FALSE]
                /\ SetHandle(side, [h EXCEPT
                                      !.cback = advance(h.cback, cap, 1)])
    /\ UNCHANGED <<cap, atomics, freed, committed, delivered, returned, uaf>>

\* Holder::cleanup, Contiguous: dealloc(c.as_ptr().cast(), layout.layout)
CleanupDealloc(side) ==
    /\ Handle(side).pc = "dealloc"
    /\ freed' = TRUE
    /\ SetHandle(side, [Handle(side) EXCEPT !.pc = "dropped"])
    /\ UNCHANGED <<cap, atomics, buffer, committed, delivered, returned,
                   dropped, uaf>>

---------------------------------------------------------------------------

Next ==
    \/ \E m \in Modes : Send(m)
    \/ SendingPoll
    \/ SendingRefresh
    \/ SendingRegister
    \/ SendingWrite
    \/ SendingCommit
    \/ SendingRecover
    \/ SendingWake
    \/ SendingDrop
    \/ SenderDrop
    \/ SenderClose
    \/ SenderWakePeer
    \/ \E m \in Modes : Receive(m)
    \/ ReceivingPoll
    \/ ReceivingLoad
    \/ ReceivingRegister
    \/ ReceivingRead
    \/ ReceivingCommit
    \/ ReceivingWake
    \/ ReceivingDrop
    \/ ReceiverDrop
    \/ ReceiverClose
    \/ ReceiverWakePeer
    \/ \E side \in Sides : CleanupTakeSender(side)
    \/ \E side \in Sides : CleanupTakeReceiver(side)
    \/ \E side \in Sides : CleanupLoop(side)
    \/ \E side \in Sides : CleanupDealloc(side)

Spec == Init /\ [][Next]_vars

---------------------------------------------------------------------------
(* src/src/lib.rs spsc() and Spsc::from_nonnull_len as operations: the     *)
(* caller passes any Half as the capacity, the memory handed out by alloc  *)
(* is uninitialised, and the call either panics in one of its assertions   *)
(* or writes the control block.                                            *)

\* the values of the type Half
Halves == 0 .. HalfMod - 1

\* contents the unwritten control block may have
RawAtomics == [state : {0, WordMax}, sender : BOOLEAN, receiver : BOOLEAN]

\* before the call: no control block, no handles
InitCreate ==
    /\ cap \in Halves
    /\ atomics \in RawAtomics
    /\ buffer = <<>>
    /\ freed = FALSE
    /\ sender = [SenderInit EXCEPT !.pc = "new", !.spsc = FALSE]
    /\ receiver = [ReceiverInit EXCEPT !.pc = "new", !.spsc = FALSE]
    /\ committed = <<>>
    /\ delivered = <<>>
    /\ returned = {}
    /\ dropped = [v \in 0 .. MaxSends |-> 0]
    /\ uaf = FALSE

\* Spsc::make: Atomics::default() and the slots as they are
make ==
    /\ atomics' = [state |-> 0, sender |-> FALSE, receiver |-> FALSE]
    /\ buffer' = [i \in 0 .. cap - 1 |-> [v |-> 0, init |-> FALSE]]

\* spsc(capacity): the two assertions, then the block and both handles
spsc ==
    /\ sender.pc = "new"
    /\ IF spsc_accepts(cap)
       THEN /\ make
            /\ sender' = SenderInit
            /\ receiver' = ReceiverInit
       ELSE /\ sender' = [sender EXCEPT !.pc = "panic"]
            /\ receiver' = [receiver EXCEPT !.pc = "panic"]
            /\ UNCHANGED <<atomics, buffer>>
    /\ UNCHANGED <<cap, freed, committed, delivered, returned, dropped, uaf>>

\* Spsc::from_nonnull_len(ptr, len): the same two assertions, then the
\* block alone (no handle is made)
from_nonnull_len ==
    /\ sender.pc = "new"
    /\ IF spsc_accepts(cap)
       THEN /\ make
            /\ sender' = [sender EXCEPT !.pc = "made"]
            /\ receiver' = [receiver EXCEPT !.pc = "made"]
       ELSE /\ sender' = [sender EXCEPT !.pc = "panic"]
            /\ receiver' = [receiver EXCEPT !.pc = "panic"]
            /\ UNCHANGED <<atomics, buffer>>
    /\ UNCHANGED <<cap, freed, committed, delivered, returned, dropped, uaf>>

NextCreate ==
    \/ spsc
    \/ from_nonnull_len

SpecCreate == InitCreate /\ [][NextCreate]_vars

---------------------------------------------------------------------------
(* src/src/state.rs HalfState::advance as a function of its arguments: any *)
(* capacity spsc() accepts, any cursor of that capacity with or without    *)
(* the close bit, and a step.  The handle's cursor fields hold the         *)
(* argument and the result.                                                *)

\* the largest step of a call
MaxBy == 2

\* the cursors a channel of capacity c can hold: a position below 2 * c,
\* alone or with the close bit
Cursors(c) == {h \in Halves : position(h) < 2 * c}

InitAdvance ==
    /\ cap \in 1 .. MAX_CAPACITY
    /\ atomics = [state |-> 0, sender |-> FALSE, receiver |-> FALSE]
    /\ buffer = [i \in 0 .. cap - 1 |-> [v |-> 0, init |-> FALSE]]
    /\ freed = FALSE
    /\ \E c \in Cursors(cap), by \in 1 .. MaxBy :
          sender = [SenderInit EXCEPT !.pc = "advance", !.s = c,
                                      !.count = by]
    /\ receiver = ReceiverInit
    /\ committed = <<>>
    /\ delivered = <<>>
    /\ returned = {}
    /\ dropped = [v \in 0 .. MaxSends |-> 0]
    /\ uaf = FALSE

\* the call self.advance(cap, by)
Advance ==
    /\ sender.pc = "advance"
    /\ sender' = [sender EXCEPT
                      !.pc = "advanced",
                      !.cback = advance(sender.s, cap, sender.count)]
    /\ UNCHANGED <<cap, atomics, buffer, freed, receiver, committed,
                   delivered, returned, dropped, uaf>>

\* the call again, on the cursor the call before returned
AdvanceAgain ==
    /\ sender.pc = "advanced"
    /\ sender' = [sender EXCEPT
                      !.s = sender.cback,
                      !.cback = advance(sender.cback, cap, sender.count)]
    /\ UNCHANGED <<cap, atomics, buffer, freed, receiver, committed,
                   delivered, returned, dropped, uaf>>

NextAdvance ==
    \/ Advance
    \/ AdvanceAgain

SpecAdvance == InitAdvance /\ [][NextAdvance]_vars

---------------------------------------------------------------------------
(* Properties. *)

IsPrefix(s, t) ==
    /\ Len(s) <= Len(t)
    /\ \A i \in 1 .. Len(s) : s[i] = t[i]

InSeq(v, s) == \E i \in 1 .. Len(s) : s[i] = v

BothDropped == sender.pc = "dropped" /\ receiver.pc = "dropped"

\* C1: the values delivered to the consumer are a prefix of the values
\* whose sends succeeded, in commit order: nothing is delivered twice,
\* skipped or reordered.  A send that returned Ok is the last one committed;
\* a send that returned Full or Closed is not among the committed.
C1_FifoPrefix ==
    /\ IsPrefix(delivered, committed)
    /\ (sender.result = "Ok" =>
          /\ committed # <<>>
          /\ committed[Len(committed)] = sender.given)
    /\ (sender.result \in {"Full", "Closed"} =>
          ~InSeq(sender.given, committed))

\* C1 witness: capacity 1, three values delivered (the cursors wrapped at
\* 2 * cap), the last through the suspending path
C1_Witness ==
    /\ cap = 1
    /\ Len(delivered) = 3
    /\ receiver.mode = "poll"
    /\ sender.mode = "poll"

\* C2: once both handles are dropped, every value whose send succeeded and
\* that was never received has been dropped exactly once.
C2_DroppedExactlyOnce ==
    BothDropped =>
        \A v \in Values :
            (InSeq(v, committed) /\ ~InSeq(v, delivered)) => dropped[v] = 1

\* C3: no lost wakeup.  An operation that returned Pending and was neither
\* dropped nor woken is still unable to progress, unless the peer is at this
\* moment between its commit (or close) and the wake that follows it.
C3_NoLostWakeup ==
    /\ (receiver.pc = "pending" /\ ~receiver.notified
            /\ sender.pc \notin {"wake", "wake_peer"}) =>
          (LengthOf(atomics.state) = 0 /\ ~SenderClosedIn(atomics.state))
    /\ (sender.pc = "pending" /\ ~sender.notified
            /\ receiver.pc \notin {"wake", "wake_peer"}) =>
          (LengthOf(atomics.state) = cap
             /\ ~ReceiverClosedIn(atomics.state))

\* C4: the two sides never both find themselves the last referent, and when
\* both handles are dropped exactly one of them did: it ran the cleanup, the
\* waker registers are empty and the block is released.
C4_OneLastReferent ==
    /\ ~(sender.last /\ receiver.last)
    /\ (BothDropped =>
          /\ sender.last \/ receiver.last
          /\ freed
          /\ ~atomics.sender /\ ~atomics.receiver)

\* C4 witness: both dropped, the consumer cleaned up after the producer had
\* left a message in flight
C4_Witness ==
    /\ BothDropped
    /\ receiver.last
    /\ Len(committed) > Len(delivered)

\* the cursors as their owners hold them: the producer's front, the
\* consumer's back
OwnFront == (sender.state % HalfMod) % HIGH_BIT
OwnBack == (receiver.state \div HalfMod) % HIGH_BIT
InFlight(i) ==
    \E k \in 0 .. ((OwnFront - OwnBack) % (2 * cap)) - 1 :
        ((OwnBack + k) % (2 * cap)) % cap = i

\* no operation is between its slot access and the end of its commit, and
\* no cleanup has started
OutsideCritical ==
    /\ sender.pc \notin {"commit", "recover",
                         "take_s", "take_r", "loop", "dealloc"}
    /\ receiver.pc \notin {"commit",
                           "take_s", "take_r", "loop", "dealloc"}
    /\ ~freed

C6_ClosedOnlyWhenDrained ==
    receiver.result = "Closed" =>
        /\ LengthOf(atomics.state) = 0
        /\ SenderClosedIn(atomics.state) \/ ReceiverClosedIn(atomics.state)
        /\ delivered = committed

\* C6 witness: Closed returned after two messages were delivered
C6_Witness ==
    /\ receiver.result = "Closed"
    /\ Len(delivered) >= 2

\* C7: a send started after the consumer handle was dropped never writes
\* through to Ok, Full or Pending: it returns Closed with its own value.
C7_SendAfterCloseIsClosed ==
    sender.afterClose =>
        /\ sender.pc \notin {"register", "pending", "wake"}
        /\ sender.result \in {"none", "Closed"}
        /\ (sender.result = "Closed" => sender.ret = sender.given)

\* C7 witness: such a send found its cache open and not full, committed,
\* saw the close in the commit and recovered its value
C7_Witness ==
    /\ sender.afterClose
    /\ sender.result = "Closed"
    /\ sender.loaded = -1
    /\ (atomics.state % HalfMod) % HIGH_BIT # OwnFront

\* C8: a failed send returns exactly the value it was given, and that value
\* is neither delivered, nor counted as sent, nor dropped by cleanup.
C8_FailedSendReturnsValue ==
    /\ (sender.result \in {"Full", "Closed"} => sender.ret = sender.given)
    /\ \A v \in returned :
          /\ ~InSeq(v, delivered)
          /\ ~InSeq(v, committed)
          /\ dropped[v] = 0

\* C9: a send returns Full only from the non-suspending path, after a load
\* made in that call showed length = capacity and no close bit.
C9_FullOnlyOnFreshFull ==
    sender.result = "Full" =>
        /\ sender.mode = "now"
        /\ sender.loaded # -1
        /\ LengthOf(sender.loaded) = cap
        /\ ~SenderClosedIn(sender.loaded)
        /\ ~ReceiverClosedIn(sender.loaded)

\* C9 witness: capacity 3 (not a power of two), Full returned to the fourth
\* send although the channel has drained since
C9_Witness ==
    /\ sender.result = "Full"
    /\ LengthOf(atomics.state) < cap
    /\ cap = 3

\* C10: a non-suspending receive returns Ok(None) only after a load made in
\* that call showed the channel empty with no close bit.
C10_NoneOnlyOnFreshEmpty ==
    receiver.result = "Empty" =>
        /\ receiver.mode = "now"
        /\ receiver.loaded # -1
        /\ LengthOf(receiver.loaded) = 0
        /\ ~SenderClosedIn(receiver.loaded)
        /\ ~ReceiverClosedIn(receiver.loaded)

\* C10 witness: Ok(None) returned although a message has arrived since
C10_Witness ==
    /\ receiver.result = "Empty"
    /\ LengthOf(atomics.state) > 0
    /\ Len(delivered) > 0

SenderDropWakes == sender.pc = "wake_peer" /\ sender'.pc = "dropped"
ReceiverDropWakes == receiver.pc = "wake_peer" /\ receiver'.pc = "dropped"

\* a poll leaves the step that examined the freshly loaded word
SendingRechecked == sender.pc = "refresh" /\ sender'.pc # "refresh"
ReceivingRechecked == receiver.pc = "load" /\ receiver'.pc # "load"

\* C12: the drop of a handle that is not the last referent takes the peer's
\* registered continuation, if any, and wakes it; the register is left
\* empty, so it is woken once.  A suspended operation re-polls
\* through a reload (its cache shows full, resp. empty, and open), and a
\* reload that sees the peer's close bit resolves: the send with
\* Closed(value), the receive on an empty channel with Closed.
C12_DropWakesPeerOnce ==
    /\ [](sender.pc = "pending" =>
            /\ LengthOf(sender.state) = cap
            /\ ~ReceiverClosedIn(sender.state))
    /\ [](receiver.pc = "pending" =>
            /\ LengthOf(receiver.state) = 0
            /\ ~SenderClosedIn(receiver.state))
    /\ [][ /\ SenderDropWakes =>
                /\ SenderClosedIn(atomics.state)
                /\ ~sender'.last
                /\ atomics.receiver =>
                      (receiver'.notified /\ ~atomics'.receiver)
           /\ ReceiverDropWakes =>
                /\ ReceiverClosedIn(atomics.state)
                /\ ~receiver'.last
                /\ atomics.sender =>
                      (sender'.notified /\ ~atomics'.sender)
           /\ (SendingRechecked /\ ReceiverClosedIn(atomics.state)) =>
                /\ sender'.result = "Closed"
                /\ sender'.ret = sender.given
           /\ (ReceivingRechecked /\ SenderClosedIn(atomics.state)
                   /\ LengthOf(atomics.state) = 0) =>
                receiver'.result = "Closed"
         ]_vars

\* C12 witness: capacity 1, one message in flight, the second send
\* suspended, the consumer handle was dropped (not the last referent) and
\* woke it, and its re-poll returned Closed with its value
C12_Witness ==
    /\ cap = 1
    /\ Len(committed) = 1
    /\ sender.mode = "poll"
    /\ sender.flags = 1
    /\ sender.result = "Closed"
    /\ sender.ret = 2
    /\ receiver.pc = "dropped"
    /\ ~receiver.last

\* the last step of a successful operation: the wake that follows the
\* commit, or the consumer's return straight from a commit whose word showed
\* a close bit
SendCompletes == sender.pc = "wake" /\ sender'.pc = "idle"
ReceiveCompletes == receiver.pc \in {"commit", "wake"} /\ receiver'.pc = "idle"

\* C13: a successful send or receive returns its result, wakes the
\* continuation registered in the peer's waker slot (once: the slot is left
\* empty), and does nothing else when none is registered.
C13_CommitWakesPeer ==
    [][ /\ SendCompletes =>
             /\ sender'.result = "Ok"
             /\ ~atomics'.receiver
             /\ receiver'.notified = (receiver.notified \/ atomics.receiver)
        /\ ReceiveCompletes =>
             /\ receiver'.result = "Some"
             /\ ~atomics'.sender
             /\ sender'.notified = (sender.notified \/ atomics.sender)
      ]_vars

\* C14: once an operation that returned Pending has been dropped, its
\* side's waker slot is empty, so nothing can wake the stale continuation.
C14_OpDropClearsWaker ==
    /\ sender.result = "Dropped" => ~atomics.sender
    /\ receiver.result = "Dropped" => ~atomics.receiver

\* the bits of the atomic word that a step changes
Changed == BitXor(atomics.state, atomics'.state)

\* C15: a close bit that is set in the atomic word stays set through every
\* later step (the cursor commits of both sides, the peer's close), and a
\* cursor commit changes position bits of its own half only.
C15_CloseBitsMonotone ==
    [][ /\ SenderClosedIn(atomics.state) => SenderClosedIn(atomics'.state)
        /\ ReceiverClosedIn(atomics.state) => ReceiverClosedIn(atomics'.state)
        /\ sender.pc = "commit" /\ sender'.pc # "commit" =>
              /\ Changed # 0
              /\ Changed < HIGH_BIT
        /\ receiver.pc = "commit" /\ receiver'.pc # "commit" =>
              /\ Changed # 0
              /\ Changed % HalfMod = 0
              /\ Changed \div HalfMod < HIGH_BIT
      ]_vars

\* C15 witness: the producer closed with messages in flight, and the
\* consumer then committed two cursor advances on the word that carries the
\* producer's close bit (its cache is the word after its last commit)
C15_Witness ==
    /\ cap = 3
    /\ sender.pc = "dropped"
    /\ receiver.pc = "idle"
    /\ receiver.result = "Some"
    /\ Len(delivered) = 2
    /\ SenderClosedIn(receiver.state)
    /\ SenderClosedIn(atomics.state)
    /\ atomics.state \div HalfMod = 2

\* the word, the waker slots and the caches right after construction
FreshBlock ==
    /\ atomics = [state |-> 0, sender |-> FALSE, receiver |-> FALSE]
    /\ DOMAIN buffer = 0 .. cap - 1
    /\ \A i \in DOMAIN buffer : ~buffer[i].init

\* C16: creation panics exactly when the capacity is 0 or greater than
\* 2^(BITS - 2) - 1; for every other capacity it succeeds and yields both
\* cursors 0, both close bits clear and both waker slots empty (in the word
\* and in both handles' caches).
C16_CreationChecksCapacity ==
    /\ sender.pc = "panic" <=>
          (sender.pc # "new" /\ (cap = 0 \/ cap > 2 ^ (BITS - 2) - 1))
    /\ sender.pc \in {"idle", "made"} =>
          /\ cap \in 1 .. 2 ^ (BITS - 2) - 1
          /\ FreshBlock
    /\ sender.pc = "idle" =>
          /\ sender.spsc /\ sender.state = 0
          /\ receiver.spsc /\ receiver.state = 0

\* C16 witness: the largest capacity was accepted, on memory that held
\* other contents before
C16_Witness ==
    /\ cap = 2 ^ (BITS - 2) - 1
    /\ sender.pc = "idle"
    /\ receiver.pc = "idle"
    /\ FreshBlock

\* C17: the drop logic run again on a handle that was already dropped
\* changes nothing: the handle stays as its drop left it, and a step taken
\* while it is dropped, other than the peer's, toggles no bit of the word,
\* wakes nobody and cleans nothing up.
C17_CloseIdempotent ==
    [][ /\ sender.pc = "dropped" =>
              /\ sender'.pc = "dropped"
              /\ sender'.spsc = sender.spsc
              /\ sender'.last = sender.last
              /\ receiver' = receiver =>
                    UNCHANGED <<atomics, buffer, freed, dropped, uaf>>
        /\ receiver.pc = "dropped" =>
              /\ receiver'.pc = "dropped"
              /\ receiver'.spsc = receiver.spsc
              /\ receiver'.last = receiver.last
              /\ sender' = sender =>
                    UNCHANGED <<atomics, buffer, freed, dropped, uaf>>
      ]_vars

\* C17 witness: the producer's drop closed the channel and woke the
\* suspended receive, and was then run a second time: its close bit is
\* still set, the block is still there
C17_Witness ==
    /\ sender.pc = "dropped"
    /\ sender.again
    /\ ~sender.last
    /\ SenderClosedIn(atomics.state)
    /\ ~ReceiverClosedIn(atomics.state)
    /\ receiver.pc = "pending"
    /\ receiver.notified
    /\ ~atomics.receiver
    /\ ~freed

\* the cursors of the producer's cached state
CachedFront == (sender.state % HalfMod) % HIGH_BIT
CachedBack == (sender.state \div HalfMod) % HIGH_BIT

\* C18: on every cached state the producer can hold, is_empty() is true iff
\* the cached front.pos equals the cached back.pos, and is_full() is true
\* iff the cached length equals the capacity.
C18_AccessorsReadCache ==
    sender.spsc =>
        /\ Sender_is_empty(sender) <=> (CachedFront = CachedBack)
        /\ Sender_is_full(sender) <=> (LengthOf(sender.state) = cap)

\* the free slots according to the atomic word
TrueSpace == cap - LengthOf(atomics.state)

C20_DrainedReceiveIsErr ==
    (/\ receiver.mode = "now"
     /\ receiver.pc = "idle"
     /\ receiver.result \notin {"none", "Some"}
     /\ receiver.loaded # -1
     /\ LengthOf(receiver.loaded) = 0
     /\ ~SenderClosedIn(receiver.loaded)
     /\ ~ReceiverClosedIn(receiver.loaded)
     /\ delivered # <<>>
     /\ delivered = committed) =>
        receiver.result = "Closed"

\* C21: a receive that returns a value returns the committed value of its
\* rank; in particular, when every successful send has been received and
\* the last send returned Ok, the receive returned exactly the value of that
\* send (the channel was empty when it was sent), whatever the cursor
\* positions.
C21_RoundTrip ==
    (receiver.pc = "idle" /\ receiver.result = "Some") =>
        /\ delivered # <<>>
        /\ Len(delivered) <= Len(committed)
        /\ receiver.ret = committed[Len(delivered)]
        /\ (Len(delivered) = Len(committed)
               /\ sender.pc = "idle" /\ sender.result = "Ok") =>
              receiver.ret = sender.given

\* C21 witness: capacity 1, the third round trip: both cursors have wrapped
\* at 2 * cap and passed position 0 again, the send through now(), the
\* receive through poll()
C21_Witness ==
    /\ cap = 1
    /\ sender.pc = "idle" /\ sender.result = "Ok" /\ sender.mode = "now"
    /\ receiver.pc = "idle" /\ receiver.result = "Some"
    /\ receiver.mode = "poll"
    /\ Len(committed) = 3
    /\ Len(delivered) = 3
    /\ receiver.ret = sender.given
    /\ atomics.state = 1 + HalfMod

\* the messages sent and not yet taken: committed, less those the consumer
\* has committed the receipt of
InFlightCount ==
    Len(committed) - Len(delivered) - (IF receiver.pc = "wake" THEN 1 ELSE 0)

\* C22 as stated: in every reachable atomic word the length equals the
\* number of sent-but-not-received messages and lies in 0 .. cap; is_empty
\* iff that number is 0, is_full iff it is cap.
C22_LengthIsInFlight ==
    ~freed =>
        /\ LengthOf(atomics.state) = InFlightCount
        /\ LengthOf(atomics.state) \in 0 .. cap
        /\ is_empty(atomics.state) <=> (InFlightCount = 0)
        /\ is_full(atomics.state, cap) <=> (InFlightCount = cap)

\* C22 amended: the same while the consumer-closed bit is clear; once it is
\* set the length is that number or one more (a send whose commit lost the
\* race with the consumer's close leaves its advance in the word), still
\* within 0 .. cap, and is_empty / is_full are those of the length.
C22_LengthIsInFlightWhileOpen ==
    ~freed =>
        /\ LengthOf(atomics.state) \in 0 .. cap
        /\ LengthOf(atomics.state) - InFlightCount \in
              (IF ReceiverClosedIn(atomics.state) THEN {0, 1} ELSE {0})
        /\ is_empty(atomics.state) <=> (LengthOf(atomics.state) = 0)
        /\ is_full(atomics.state, cap) <=> (LengthOf(atomics.state) = cap)

\* C22 witness: full after the front cursor wrapped at 2 * cap: the front
\* position is numerically below the back position
C22_Witness ==
    /\ cap = 2
    /\ ~freed
    /\ ~ReceiverClosedIn(atomics.state)
    /\ InFlightCount = 2
    /\ is_full(atomics.state, cap)
    /\ (atomics.state % HalfMod) % HIGH_BIT
          < (atomics.state \div HalfMod) % HIGH_BIT

\* C23: when the consumer's close RMW found the producer already closed,
\* the state its cleanup runs on has the cursors of the word after the RMW
\* (the current cursors).
C23_CleanupFromPostRMW ==
    (receiver.last /\ ReceiverClosedIn(atomics.state)) =>
        /\ position(front(receiver.cstate)) = position(front(atomics.state))
        /\ position(back(receiver.cstate)) = position(back(atomics.state))

\* a send's commit lost the race with the consumer's close: the word counts
\* one message more than was sent, and the send has read its value back
LostRace ==
    /\ ReceiverClosedIn(atomics.state)
    /\ LengthOf(atomics.state) = InFlightCount + 1
    /\ sender.pc # "recover"

\* C24: after a lost race the cached front is the cursor before the advance
\* while the word keeps the advance; no later send goes past the cached
\* state (each returns Closed, none reloads, writes a slot or commits); and
\* the producer's teardown drops no value that a send handed back.
C24_RewindOnLostRace ==
    LostRace =>
        /\ is_closed(sender.state)
        /\ position(front(atomics.state)) = (OwnFront + 1) % (2 * cap)
        /\ sender.pc \in {"idle", "take_s", "take_r", "loop", "dealloc",
                           "dropped"}
        /\ sender.result = "Closed"
        /\ \A v \in returned : dropped[v] = 0

\* C25: advance(c, cap, k) has position (c.pos + k) mod (2 * cap) and the
\* close bit of c, for every capacity and also for c with the close bit set.
C25_AdvanceKeepsCloseBit ==
    sender.pc = "advanced" =>
        /\ position(sender.cback)
              = (position(sender.s) + sender.count) % (2 * cap)
        /\ half_is_closed(sender.cback) = half_is_closed(sender.s)

\* the number of payloads dropped so far
RECURSIVE DropsUpTo(_)
DropsUpTo(v) == IF v < 0 THEN 0 ELSE dropped[v] + DropsUpTo(v - 1)

\* the cleanup of the last referent is in its loop, or past it
InCleanup(h) == h.last /\ h.pc \in {"loop", "dealloc", "dropped"}

\* C26: a cleanup walks the virtual positions from back.pos of its state
\* towards front.pos, one payload per position (the back cursor is back.pos
\* plus the drops made, so no position is visited twice or skipped), every
\* slot it drops holds a value sent and not dropped before, and when the
\* loop ends it has made exactly length-of-the-range drops.
C26_CleanupWalksRange ==
    \A side \in Sides :
        LET h == Handle(side)
            n == DropsUpTo(MaxSends)
        IN  InCleanup(h) =>
              /\ dropped[0] = 0
              /\ \A v \in Values : dropped[v] <= 1
              /\ n <= LengthOf(h.cstate)
              /\ h.pc = "loop" =>
                    position(h.cback)
                      = (position(back(h.cstate)) + n) % (2 * cap)
              /\ h.pc # "loop" => n = LengthOf(h.cstate)

\* C27: no access to the control block (state word, waker registers,
\* slots) is made after the last referent released it; in particular the
\* wake of the peer that follows a close RMW never runs on a released block.
C27_NoAccessAfterRelease == ~uaf

\* C28: every step of the producer, its cursor commit and its close
\* included, leaves the high half of the state word as it was, and every
\* step of the consumer leaves the low half as it was; the RMWs do change
\* the word.
C28_OwnHalfOnly ==
    [][ /\ sender'.pc # sender.pc =>
              atomics'.state \div HalfMod = atomics.state \div HalfMod
        /\ receiver'.pc # receiver.pc =>
              atomics'.state % HalfMod = atomics.state % HalfMod
        /\ sender.pc \in {"commit", "close"} /\ sender'.pc # sender.pc =>
              Changed \in 1 .. HalfMod - 1
        /\ receiver.pc \in {"commit", "close"}
              /\ receiver'.pc # receiver.pc =>
              Changed # 0 /\ Changed % HalfMod = 0
      ]_vars

\* C28 witness: each side has committed a cursor advance and closed with an
\* RMW: both halves hold position 1 and their close bit
C28_Witness ==
    atomics.state = (HIGH_BIT + 1) * HalfMod + HIGH_BIT + 1

\* C29: at the producer's commit the slot of its cursor already holds the
\* value, and at the consumer's commit the value was already read; the
\* producer between its write and its commit and the consumer between its
\* read and its commit are never on the same physical slot; a send has
\* returned Ok only with its value committed.
C29_WriteReadBeforeCommit ==
    /\ sender.pc = "commit" =>
          buffer[index(OwnFront, cap)] = [v |-> sender.value, init |-> TRUE]
    /\ receiver.pc = "commit" =>
          /\ Len(delivered) < Len(committed)
          /\ receiver.value = committed[Len(delivered) + 1]
    /\ ~ /\ sender.pc \in {"write", "commit"}
         /\ receiver.pc \in {"read", "commit"}
         /\ index(OwnFront, cap) = index(OwnBack, cap)
    /\ (sender.pc = "idle" /\ sender.result = "Ok") =>
          /\ committed # <<>>
          /\ committed[Len(committed)] = sender.given

\* C29 witness: the producer is about to write and the consumer about to
\* read, at the same time, on the two slots of a channel of capacity 2
\* whose cursors have both moved
C29_Witness ==
    /\ cap = 2
    /\ sender.pc = "write"
    /\ receiver.pc = "read"
    /\ Len(delivered) >= 1
    /\ index(OwnFront, cap) # index(OwnBack, cap)

\* C30: the producer suspended in a pending send and the consumer suspended
\* in a pending receive, with no wake delivered to either, is not a
\* reachable state.
C30_NeverBothAsleep ==
    ~ /\ sender.pc = "pending"
      /\ receiver.pc = "pending"
      /\ ~sender.notified
      /\ ~receiver.notified

\* a cached state that shows an open channel with a free slot
CacheShowsSpace(w) ==
    /\ ~SenderClosedIn(w)
    /\ ~ReceiverClosedIn(w)
    /\ LengthOf(w) < cap

\* C31: a send is Full or suspended, and a receive is Ok(None) or
\* suspended, only with a load of the atomic word made in the same call;
\* a call that starts on a cache showing space and open (producer) or a
\* message (consumer) goes straight to its slot access, and from there to
\* its return it makes no load and changes the word by its commit alone.
C31_FreshLoadGates ==
    [][ /\ (sender'.result = "Full"
              \/ sender'.pc \in {"register", "pending"}) =>
              sender'.loaded # -1
        /\ (receiver'.result = "Empty"
              \/ receiver'.pc \in {"register", "pending"}) =>
              receiver'.loaded # -1
        /\ (sender.pc \in {"idle", "pending"}
              /\ sender'.pc \in {"refresh", "write"}
              /\ CacheShowsSpace(sender.state)) =>
              sender'.pc = "write" /\ sender'.loaded = -1
        /\ (receiver.pc \in {"idle", "pending"}
              /\ receiver'.pc \in {"load", "read"}
              /\ LengthOf(receiver.state) # 0) =>
              receiver'.pc = "read" /\ receiver'.loaded = -1
        /\ (sender.pc \in {"write", "commit", "recover", "wake"}
              /\ sender'.pc # sender.pc) =>
              /\ sender'.loaded = sender.loaded
              /\ sender.pc # "commit" => atomics'.state = atomics.state
        /\ (receiver.pc \in {"read", "commit", "wake"}
              /\ receiver'.pc # receiver.pc) =>
              /\ receiver'.loaded = receiver.loaded
              /\ receiver.pc # "commit" => atomics'.state = atomics.state
      ]_vars

\* C31 witness: the producer is suspended after a load that showed a full
\* word, while the consumer, whose cache showed a message, is at its
\* commit with no load made in its call
C31_Witness ==
    /\ cap = 2
    /\ sender.pc = "pending"
    /\ sender.loaded # -1
    /\ LengthOf(sender.loaded) = cap
    /\ receiver.pc = "commit"
    /\ receiver.loaded = -1

\* C32: a poll of a suspended operation goes through the checks again (for
\* a suspended operation the cache shows no progress, so it reloads); when
\* the reloaded word shows no progress it registers and is pending again;
\* none of these steps changes the state word or a slot, and the register
\* step leaves the one waker slot of its side occupied, whether or not a
\* registration was there before.
C32_RepollRechecks ==
    [][ /\ (sender.pc = "pending" /\ sender'.pc # "pending") =>
              sender'.pc \in {"refresh", "idle"}
        /\ (receiver.pc = "pending" /\ receiver'.pc # "pending") =>
              receiver'.pc \in {"load", "idle"}
        /\ (sender.pc = "refresh" /\ sender'.pc # "refresh"
              /\ sender.mode = "poll"
              /\ ~ReceiverClosedIn(atomics.state)
              /\ LengthOf(atomics.state) = cap) =>
              sender'.pc = "register"
        /\ (receiver.pc = "load" /\ receiver'.pc # "load"
              /\ receiver.mode = "poll"
              /\ ~SenderClosedIn(atomics.state)
              /\ LengthOf(atomics.state) = 0) =>
              receiver'.pc = "register"
        /\ (sender.pc = "register" /\ sender'.pc # "register") =>
              /\ sender'.pc = "pending"
              /\ atomics'.sender
              /\ atomics'.receiver = atomics.receiver
        /\ (receiver.pc = "register" /\ receiver'.pc # "register") =>
              /\ receiver'.pc = "pending"
              /\ atomics'.receiver
              /\ atomics'.sender = atomics.sender
        /\ (sender.pc \in {"pending", "refresh", "register"}
              /\ sender'.pc \in {"refresh", "register", "pending"}
              /\ sender'.pc # sender.pc) =>
              atomics'.state = atomics.state /\ buffer' = buffer
        /\ (receiver.pc \in {"pending", "load", "register"}
              /\ receiver'.pc \in {"load", "register", "pending"}
              /\ receiver'.pc # receiver.pc) =>
              atomics'.state = atomics.state /\ buffer' = buffer
      ]_vars

\* C32 witness: capacity 1, the second send (the first that can suspend)
\* was polled again with the word still full and is about to register
\* while its earlier registration is still in the slot
C32_Witness ==
    /\ cap = 1
    /\ sender.pc = "register"
    /\ sender.count = 2
    /\ atomics.sender
    /\ ~sender.notified
    /\ Len(committed) = 1
    /\ delivered = <<>>
    /\ LengthOf(atomics.state) = cap

\* the places of a now() call in the order the code passes them; "idle" is
\* the return
OpRank(pc) ==
    CASE pc \in {"refresh", "load"} -> 1
      [] pc \in {"write", "read"} -> 2
      [] pc = "commit" -> 3
      [] pc \in {"recover", "wake"} -> 4
      [] pc = "idle" -> 5
      [] OTHER -> 0

\* C33: a now() call only moves forward through load, slot access, commit
\* and return (no place is passed twice, none is a wait), the word is
\* loaded only by the one load step and changed by the call only in the one
\* commit step, and no step of the peer moves the call to another place.
C33_NowIsWaitFree ==
    [][ /\ (sender.mode = "now" /\ OpRank(sender.pc) \in 1 .. 4
              /\ sender'.pc # sender.pc) =>
              /\ OpRank(sender'.pc) > OpRank(sender.pc)
              /\ receiver'.pc = receiver.pc
              /\ (sender.pc # "refresh" => sender'.loaded = sender.loaded)
              /\ (sender.pc # "commit" => atomics'.state = atomics.state)
        /\ (receiver.mode = "now" /\ OpRank(receiver.pc) \in 1 .. 4
              /\ receiver'.pc # receiver.pc) =>
              /\ OpRank(receiver'.pc) > OpRank(receiver.pc)
              /\ sender'.pc = sender.pc
              /\ (receiver.pc # "load" => receiver'.loaded = receiver.loaded)
              /\ (receiver.pc # "commit" => atomics'.state = atomics.state)
      ]_vars

\* C33 witness: a now() send has made its one load and its one commit
\* while the consumer is in the middle of a receive
C33_Witness ==
    /\ sender.mode = "now"
    /\ sender.pc = "wake"
    /\ sender.loaded # -1
    /\ receiver.mode = "now"
    /\ receiver.pc = "wake"

\* the number of advances made on each half of the atomic word
FrontAdvances == Len(committed) + (LengthOf(atomics.state) - InFlightCount)
BackAdvances == Len(delivered) + (IF receiver.pc = "wake" THEN 1 ELSE 0)

\* the values a half of the word has held so far: the positions it passed,
\* and its current value
PastHalves(n, now) == {k % (2 * cap) : k \in 0 .. n} \cup {now}

\* C34: with no operation running on a live handle, the producer's cached
\* front is the word's front position, or exactly one position behind it
\* after a rewind, and the consumer's cached back is the word's back; the
\* peer half of a cache is always a value that half of the word has held;
\* and the step of a commit leaves the cache equal to the word.
C34_CacheTracksWord ==
    /\ [](~freed =>
            /\ (sender.pc = "idle" /\ sender.spsc) =>
                  IF LostRace
                  THEN (OwnFront + 1) % (2 * cap)
                         = position(front(atomics.state))
                  ELSE front(sender.state) = front(atomics.state)
            /\ (receiver.pc = "idle" /\ receiver.spsc) =>
                  back(receiver.state) = back(atomics.state)
            /\ sender.spsc =>
                  back(sender.state)
                    \in PastHalves(BackAdvances, back(atomics.state))
            /\ receiver.spsc =>
                  front(receiver.state)
                    \in PastHalves(FrontAdvances, front(atomics.state)))
    /\ [][
            /\ (sender.pc = "commit" /\ sender'.pc # "commit") =>
                  sender'.state = atomics'.state
            /\ (receiver.pc = "commit" /\ receiver'.pc # "commit") =>
                  receiver'.state = atomics'.state
          ]_vars

\* C34 witness: both sides are between operations, the consumer has taken
\* a message since the producer's last commit: the producer's cached front
\* is the word's, its cached back is an earlier back of the word
C34_Witness ==
    /\ sender.pc = "idle" /\ sender.spsc
    /\ receiver.pc = "idle" /\ receiver.spsc
    /\ ~SenderClosedIn(atomics.state) /\ ~ReceiverClosedIn(atomics.state)
    /\ front(sender.state) = front(atomics.state)
    /\ back(receiver.state) = back(atomics.state)
    /\ back(sender.state) # back(atomics.state)
    /\ Len(delivered) = 2

\* C35: MAX_CAPACITY is 2^(BITS - 2) - 1, and for every capacity from 1 to
\* MAX_CAPACITY, after any sequence of advances a cursor's position is in
\* 0 .. 2 * cap - 1 and below the close bit; 2 * cap, and a cursor plus
\* one, are below 2^BITS (the half word does not overflow).
C35_PositionsInRange ==
    /\ MAX_CAPACITY = 2 ^ (BITS - 2) - 1
    /\ cap \in 1 .. 2 ^ (BITS - 2) - 1
    /\ 2 * cap < HalfMod
    /\ sender.s + 1 < HalfMod
    /\ sender.pc = "advanced" =>
          /\ sender.cback \in 0 .. 2 * cap - 1
          /\ sender.cback < HIGH_BIT
          /\ position(sender.cback) = sender.cback
          /\ sender.cback + 1 < HalfMod

\* C35 witness: the largest capacity, a cursor at the last position
\* 2 * cap - 1 advanced by one, to 0
C35_Witness ==
    /\ cap = MAX_CAPACITY
    /\ sender.pc = "advanced"
    /\ sender.count = 1
    /\ sender.s = 2 * cap - 1
    /\ sender.cback = 0

\* C36: the last referent drops every payload of its range before it
\* clears the waker slots, and releases the block after both; after the
\* release no payload is dropped and no waker slot is accessed.
C36_CleanupOrder ==
    \A side \in Sides :
        LET h == Handle(side)
        IN  h.last =>
              /\ h.pc \in {"take_s", "take_r"} =>
                    DropsUpTo(MaxSends) = LengthOf(h.cstate)
              /\ freed => (h.pc = "dropped" /\ ~uaf)

===========================================================================
